---- MODULE Spec2Model ----
(***************************************************************************)
(* Model of create-feature-issues.py: main() walks two fixed lists of      *)
(* issue descriptors and calls create_issue() on each, one blocking HTTP   *)
(* POST at a time, counting the calls that returned True.                  *)
(***************************************************************************)
EXTENDS Integers, Sequences, FiniteSets, TLC

\* ------------------------------------------------------------------------
\* Catalog (program constants) and bounds of the environment
\* ------------------------------------------------------------------------

\* len(get_domain_feature_requests()): FR-001 .. FR-013
NumDomain == 13

\* len(get_technical_feature_requests()): TFR-001 .. TFR-012
NumTechnical == 12

\* Bound on the number of responses other than 201 the remote API gives
\* in one run.
MaxFaults == 2

\* Bound on the number of times the script is run, one run after the other,
\* against the same remote repository.
MaxRuns == 2

\* A descriptor is identified by its position in the catalog: the domain
\* descriptors are 1..NumDomain, the technical ones follow.
get_domain_feature_requests == [j \in 1..NumDomain |-> j]

get_technical_feature_requests == [j \in 1..NumTechnical |-> NumDomain + j]

Descriptors == 1..(NumDomain + NumTechnical)

DomainItems == {get_domain_feature_requests[j] : j \in 1..NumDomain}

TechnicalItems == {get_technical_feature_requests[j] : j \in 1..NumTechnical}

\* os.environ.get("GITHUB_TOKEN") returns None when the variable is unset.
None == "<None>"

\* The values GITHUB_TOKEN can have in the environment of a run.
TokenValues == {None, "", "ghp_token"}

\* HTTP statuses the remote API answers with: 201 Created, and one status of
\* each other class the code can receive as a final response.
Statuses == {201, 304, 422, 503}

\* Statuses that do not count against MaxFaults.
PlainStatuses == {201}

\* response of a call that got no HTTP response (requests.post raised).
NoResponse == 0

\* ------------------------------------------------------------------------
\* State
\* ------------------------------------------------------------------------
VARIABLES
    token,              \* main: token
    pc,                 \* position of main
    i,                  \* 1-based position of the running for loop
    inflight,           \* descriptor whose POST is blocking, 0 if none
    domain_success,     \* main: domain_success
    technical_success,  \* main: technical_success
    response,           \* status of the last HTTP response, NoResponse if none
    returned,           \* what the last create_issue call did
    stdout,             \* lines printed so far
    requests,           \* POST requests sent so far, in order
    calls,              \* calls[d]: number of create_issue calls for d
    outcome,            \* outcome[d]: result of the call for d
    remote,             \* descriptors the remote API has created records for
    non2xx,             \* number of non-2xx responses received
    exit_code,          \* process exit status, -1 while running
    history             \* exit statuses of the earlier runs of the script

vars == <<token, pc, i, inflight, domain_success, technical_success, response,
          returned, stdout, requests, calls, outcome, remote, non2xx,
          exit_code, history>>

\* ------------------------------------------------------------------------
\* Helpers
\* ------------------------------------------------------------------------

\* One printed line. item, a, b are 0 where the line has no such part.
Line(kind, item, a, b) == [kind |-> kind, item |-> item, a |-> a, b |-> b]

\* Python truthiness of `not token`.
TokenMissing_NoneOnly(t) == t = None

TokenMissing(t) == t = None \/ t = ""

\* Response.raise_for_status() raises HTTPError for 4xx and 5xx only.
RaisesHTTPError(status) == 400 <= status /\ status < 600

Is2xx(status) == 200 <= status /\ status <= 299

\* The request create_issue builds for descriptor d.
Request(d, t) == [title |-> d, body |-> d, labels |-> "enhancement",
                  authorization |-> t]

\* The list the running loop iterates.
CurrentList_TechnicalFirst ==
    IF pc = "domain" THEN get_technical_feature_requests
    ELSE get_domain_feature_requests

CurrentList == IF pc = "domain" THEN get_domain_feature_requests
               ELSE get_technical_feature_requests

\* `if create_issue(...): x_success += 1`
Count_Double(n, ok) == IF ok THEN n + 2 ELSE n

Count(n, ok) == IF ok THEN n + 1 ELSE n

\* The for loop moves to the next descriptor whatever create_issue returned.
NextIndex_RetryFailed(k, ok) == IF ok THEN k + 1 ELSE k

NextIndex_SkipAfterFail(k, ok) == IF ok THEN k + 1 ELSE k + 2

NextIndex(k, ok) == k + 1

\* Position of main after create_issue returned ok in loop p.
AfterReturn_HaltOnFail(p, ok) == IF ok THEN p ELSE "crashed"

AfterReturn(p, ok) == p

\* The counter the loop at position p adds to: line 776 adds to
\* domain_success, line 786 to technical_success.
CounterOf_CopyPaste(p) == "domain"

CounterOf(p) == p

\* create_issue, lines 41 and 44-45: what a call for d prints before it
\* returns ok.
PrintOutcome_AlwaysCreated(d, ok) == <<Line("created", d, 0, 0)>>

PrintOutcome(d, ok) ==
    IF ok THEN <<Line("created", d, 0, 0)>>
    ELSE <<Line("failed", d, 0, 0), Line("response_text", d, 0, 0)>>

\* create_issue, lines 43-46: the except branch prints and returns; it sends
\* nothing to the remote API, whose records rem stay as they are.
AfterFailure_Rollback(rem, ok) == IF ok THEN rem ELSE <<>>

AfterFailure(rem, ok) == rem

\* main, lines 788-793: the lines of the final summary, as printed.
SummaryLines_PerBatchFirst(ds, ts) ==
    <<Line("blank", 0, 0, 0),
      Line("rule", 0, 0, 0),
      Line("domain_count", 0, ds, Len(get_domain_feature_requests)),
      Line("technical_count", 0, ts, Len(get_technical_feature_requests)),
      Line("total", 0, ds + ts,
           Len(get_domain_feature_requests)
             + Len(get_technical_feature_requests)),
      Line("rule", 0, 0, 0)>>

SummaryLines(ds, ts) ==
    <<Line("blank", 0, 0, 0),
      Line("rule", 0, 0, 0),
      Line("total", 0, ds + ts,
           Len(get_domain_feature_requests)
             + Len(get_technical_feature_requests)),
      Line("domain_count", 0, ds, Len(get_domain_feature_requests)),
      Line("technical_count", 0, ts, Len(get_technical_feature_requests)),
      Line("rule", 0, 0, 0)>>

\* ------------------------------------------------------------------------
\* Initial state: the process has started, main has not run yet
\* ------------------------------------------------------------------------
Init ==
    /\ token \in TokenValues
    /\ pc = "start"
    /\ i = 0
    /\ inflight = 0
    /\ domain_success = 0
    /\ technical_success = 0
    /\ response = NoResponse
    /\ returned = "none"
    /\ stdout = <<>>
    /\ requests = <<>>
    /\ calls = [d \in Descriptors |-> 0]
    /\ outcome = [d \in Descriptors |-> "Pending"]
    /\ remote = <<>>
    /\ non2xx = 0
    /\ exit_code = -1
    /\ history = <<>>

\* ------------------------------------------------------------------------
\* main
\* ------------------------------------------------------------------------

\* main, lines 761-765: no token, print the diagnostic and sys.exit(1).
MainNoToken ==
    /\ pc = "start"
    /\ TokenMissing(token)
    /\ stdout' = stdout \o <<Line("error_no_token", 0, 0, 0),
                             Line("error_hint", 0, 0, 0)>>
    /\ pc' = "exited"
    /\ exit_code' = 1
    /\ UNCHANGED <<token, i, inflight, domain_success, technical_success,
                   response, returned, requests, calls, outcome, remote,
                   non2xx, history>>

\* main, lines 767-773: banner, domain header, domain_success = 0.
MainBegin ==
    /\ pc = "start"
    /\ ~TokenMissing(token)
    /\ stdout' = stdout \o <<Line("banner", 0, 0, 0), Line("blank", 0, 0, 0),
                             Line("domain_header", 0, 0, 0)>>
    /\ domain_success' = 0
    /\ i' = 1
    /\ pc' = "domain"
    /\ UNCHANGED <<token, inflight, technical_success, response, returned,
                   requests, calls, outcome, remote, non2xx, exit_code,
                   history>>

\* Loop body, lines 774-775 / 784-785, and create_issue lines 26-39: the
\* next descriptor's request is built and sent; requests.post blocks.
Post_SkipExisting ==
    /\ pc \in {"domain", "technical"}
    /\ inflight = 0
    /\ i >= 1 /\ i <= Len(CurrentList)
    /\ LET d == CurrentList[i] IN
        IF \E r \in DOMAIN remote : remote[r] = d
        THEN /\ i' = i + 1
             /\ UNCHANGED <<inflight, requests, calls>>
        ELSE /\ inflight' = d
             /\ requests' = Append(requests, Request(d, token))
             /\ calls' = [calls EXCEPT ![d] = @ + 1]
             /\ i' = i
    /\ UNCHANGED <<token, pc, domain_success, technical_success, response,
                   returned, stdout, outcome, remote, non2xx, exit_code,
                   history>>

Post_NoWait ==
    /\ pc \in {"domain", "technical"}
    /\ i >= 1 /\ i <= Len(CurrentList)
    /\ calls[CurrentList[i]] < 2
    /\ LET d == CurrentList[i] IN
        /\ inflight' = d
        /\ requests' = Append(requests, Request(d, token))
        /\ calls' = [calls EXCEPT ![d] = @ + 1]
    /\ UNCHANGED <<token, pc, i, domain_success, technical_success, response,
                   returned, stdout, outcome, remote, non2xx, exit_code,
                   history>>

Post ==
    /\ pc \in {"domain", "technical"}
    /\ inflight = 0
    /\ i >= 1 /\ i <= Len(CurrentList)
    /\ LET d == CurrentList[i] IN
        /\ inflight' = d
        /\ requests' = Append(requests, Request(d, token))
        /\ calls' = [calls EXCEPT ![d] = @ + 1]
    /\ UNCHANGED <<token, pc, i, domain_success, technical_success, response,
                   returned, stdout, outcome, remote, non2xx, exit_code,
                   history>>

\* The rest of create_issue (lines 39-46) and of the loop body (lines
\* 775-776 / 785-786) once the HTTP response with this status arrived.
Respond(status) ==
    /\ inflight # 0
    /\ status \in PlainStatuses \/ non2xx < MaxFaults
    /\ LET d == inflight
           ok == ~RaisesHTTPError(status)
       IN
        /\ response' = status
        /\ returned' = IF ok THEN "True" ELSE "False"
        /\ stdout' = stdout \o PrintOutcome(d, ok)
        /\ outcome' = [outcome EXCEPT ![d] = IF ok THEN "Succeeded"
                                                ELSE "Failed"]
        /\ remote' = AfterFailure(IF Is2xx(status) THEN Append(remote, d)
                                   ELSE remote, ok)
        /\ non2xx' = IF Is2xx(status) THEN non2xx ELSE non2xx + 1
        /\ domain_success' = IF CounterOf(pc) = "domain"
                               THEN Count(domain_success, ok)
                               ELSE domain_success
        /\ technical_success' = IF CounterOf(pc) = "technical"
                                  THEN Count(technical_success, ok)
                                  ELSE technical_success
        /\ i' = NextIndex(i, ok)
        /\ pc' = AfterReturn(pc, ok)
        /\ exit_code' = IF AfterReturn(pc, ok) = "crashed" THEN 1
                        ELSE exit_code
    /\ inflight' = 0
    /\ UNCHANGED <<token, requests, calls, history>>

\* create_issue returns True: raise_for_status did not raise.
CreateIssueCreated ==
    \E status \in Statuses : ~RaisesHTTPError(status) /\ Respond(status)

\* create_issue returns False: the except HTTPError branch ran.
CreateIssueHTTPError ==
    \E status \in Statuses : RaisesHTTPError(status) /\ Respond(status)

\* requests.post raises ConnectionError / Timeout: the except clause names
\* HTTPError only, the exception leaves create_issue and main, and the
\* interpreter ends the process with a traceback and status 1.
CreateIssueTransportError ==
    /\ inflight # 0
    /\ response' = NoResponse
    /\ returned' = "raised"
    /\ inflight' = 0
    /\ pc' = "crashed"
    /\ exit_code' = 1
    /\ UNCHANGED <<token, i, domain_success, technical_success, stdout,
                   requests, calls, outcome, remote, non2xx, history>>

\* main, lines 778-782: the domain loop is exhausted.
BeginTechnical ==
    /\ pc = "domain"
    /\ inflight = 0
    /\ i > Len(get_domain_feature_requests)
    /\ stdout' = stdout \o <<Line("blank", 0, 0, 0),
                             Line("technical_header", 0, 0, 0)>>
    /\ technical_success' = 0
    /\ i' = 1
    /\ pc' = "technical"
    /\ UNCHANGED <<token, inflight, domain_success, response, returned,
                   requests, calls, outcome, remote, non2xx, exit_code,
                   history>>

\* main, lines 788-793: the technical loop is exhausted; summary; main
\* returns and the process exits with status 0.
Summary ==
    /\ pc = "technical"
    /\ inflight = 0
    /\ i > Len(get_technical_feature_requests)
    /\ stdout' = stdout \o SummaryLines(domain_success, technical_success)
    /\ pc' = "done"
    /\ exit_code' = 0
    /\ UNCHANGED <<token, i, inflight, domain_success, technical_success,
                   response, returned, requests, calls, outcome, remote,
                   non2xx, history>>

Next ==
    \/ MainNoToken
    \/ MainBegin
    \/ Post
    \/ CreateIssueCreated
    \/ CreateIssueHTTPError
    \/ CreateIssueTransportError
    \/ BeginTechnical
    \/ Summary

Spec == Init /\ [][Next]_vars

\* ------------------------------------------------------------------------
\* Several runs of the script, one after the other
\* ------------------------------------------------------------------------

\* Lines 796-797: the script is started again after the earlier process
\* ended. The new process has its own locals, its own stdout and the token of
\* its own environment; the remote repository keeps the records it has.
Restart ==
    /\ pc \in {"done", "exited", "crashed"}
    /\ Len(history) + 1 < MaxRuns
    /\ history' = Append(history, exit_code)
    /\ token' \in TokenValues
    /\ pc' = "start"
    /\ i' = 0
    /\ inflight' = 0
    /\ domain_success' = 0
    /\ technical_success' = 0
    /\ response' = NoResponse
    /\ returned' = "none"
    /\ stdout' = <<>>
    /\ calls' = [d \in Descriptors |-> 0]
    /\ outcome' = [d \in Descriptors |-> "Pending"]
    /\ non2xx' = 0
    /\ exit_code' = -1
    /\ UNCHANGED <<requests, remote>>

\* create_issue returns True after a 201 Created.
CreateIssue201 ==
    \E status \in PlainStatuses : Respond(status)

\* Runs against a remote API that answers every request it answers with
\* 201 Created.
NextRuns ==
    \/ MainNoToken
    \/ MainBegin
    \/ Post
    \/ CreateIssue201
    \/ CreateIssueTransportError
    \/ BeginTechnical
    \/ Summary
    \/ Restart

SpecRuns == Init /\ [][NextRuns]_vars

\* ------------------------------------------------------------------------
\* Derived values
\* ------------------------------------------------------------------------

TypeOK ==
    /\ token \in TokenValues
    /\ pc \in {"start", "domain", "technical", "done", "exited", "crashed"}
    /\ i \in 0..(NumDomain + NumTechnical + 2)
    /\ inflight \in {0} \cup Descriptors
    /\ domain_success \in Nat
    /\ technical_success \in Nat
    /\ response \in Statuses \cup {NoResponse}
    /\ returned \in {"none", "True", "False", "raised"}
    /\ non2xx \in 0..MaxFaults
    /\ exit_code \in {-1, 0, 1}

\* ------------------------------------------------------------------------
\* Views of the state used by the properties
\* ------------------------------------------------------------------------

Running == pc \in {"domain", "technical"}

\* A create_issue call returns (True or False) in this step.
CallReturns == inflight # 0 /\ inflight' = 0 /\ returned' \in {"True", "False"}

\* Positions of stdout holding a line of this kind.
LinesOfKind(kind) == {p \in DOMAIN stdout : stdout[p].kind = kind}

\* Positions of the per-item markers (of the descriptors in items).
Markers(items) ==
    {p \in DOMAIN stdout : stdout[p].kind \in {"created", "failed"}
                           /\ stdout[p].item \in items}

\* Number of descriptors of a batch counted as succeeded per descriptor.
SucceededIn(o, items) == Cardinality({d \in items : o[d] = "Succeeded"})

AttemptedIn(o, items) == Cardinality({d \in items : o[d] # "Pending"})

\* ------------------------------------------------------------------------
\* C1
\* ------------------------------------------------------------------------

\* C1: a create_issue call that ends in the HTTP-error branch (returns
\* False) leaves main in the same loop at the next descriptor with the
\* process still running; the process is only ever cut short by an exception
\* out of requests.post, never by a False return; and a run that reaches the
\* summary has called create_issue for every descriptor of both batches,
\* the ones after a failed descriptor included.
C1_FailureNeverHalts ==
    /\ [][(CallReturns /\ returned' = "False")
            => /\ pc' = pc
               /\ Running'
               /\ i' = i + 1
               /\ exit_code' = -1]_vars
    /\ [](pc = "crashed" => returned = "raised")
    /\ [](pc = "done" => \A d \in Descriptors : calls[d] = 1)

\* A domain descriptor failed, and the run went on to the end of both
\* batches.
C1_Witness ==
    /\ pc = "done"
    /\ \E d \in DomainItems :
         /\ outcome[d] = "Failed"
         /\ d + 1 \in DomainItems
         /\ outcome[d + 1] # "Pending"
         /\ \A t \in TechnicalItems : outcome[t] # "Pending"

\* ------------------------------------------------------------------------
\* C2
\* ------------------------------------------------------------------------

\* C2: a call whose HTTP request got no response (requests.post raised a
\* transport error) ends with create_issue returning False, the descriptor
\* recorded as Failed, and main still running its loop.
C2_TransportFailureIsFailedSubmission ==
    (returned # "none" /\ response = NoResponse)
        => /\ returned = "False"
           /\ pc # "crashed"
           /\ exit_code # 1

\* ------------------------------------------------------------------------
\* C3
\* ------------------------------------------------------------------------

\* C3: once the process has ended, its exit status is 1 exactly when the
\* token was missing, and 0 otherwise, whatever happened to the submissions.
C3_ExitCodeReflectsOnlyCredential ==
    (exit_code # -1) => (exit_code = IF TokenMissing(token) THEN 1 ELSE 0)

\* ------------------------------------------------------------------------
\* C4
\* ------------------------------------------------------------------------

\* C4: with GITHUB_TOKEN unset or empty, no create_issue call and no request
\* is ever made, no header, marker or summary line is printed, and once main
\* has acted the diagnostic is on stdout and the exit status is 1; and no
\* request ever carries an empty (or absent) bearer token.
C4_NoTokenNoSubmission ==
    /\ TokenMissing(token) =>
         /\ requests = <<>>
         /\ inflight = 0
         /\ \A d \in Descriptors : calls[d] = 0 /\ outcome[d] = "Pending"
         /\ \A p \in DOMAIN stdout :
              stdout[p].kind \in {"error_no_token", "error_hint"}
         /\ pc \in {"start", "exited"}
         /\ pc = "exited" => /\ exit_code = 1
                             /\ LinesOfKind("error_no_token") # {}
    /\ \A r \in DOMAIN requests :
         requests[r].authorization \notin {None, ""}

\* main ran with an empty token and ended.
C4_Witness == token = "" /\ pc = "exited" /\ exit_code = 1

\* ------------------------------------------------------------------------
\* C5
\* ------------------------------------------------------------------------

\* C5: after a call that received an HTTP response, create_issue returned
\* True if and only if the status is 2xx.
C5_SuccessIff2xx ==
    (response # NoResponse) => (returned = "True" <=> Is2xx(response))

\* ------------------------------------------------------------------------
\* C6
\* ------------------------------------------------------------------------

\* C6: when the summary has been printed, the total line reads
\* (N - k) out of N, with N = 25 and k the number of non-2xx responses of
\* the run, each per-batch line reads that batch's count out of its size,
\* and the total is the sum of the two per-batch lines.
C6_SummaryCounts ==
    pc = "done" =>
        \A t \in LinesOfKind("total") :
        \A dl \in LinesOfKind("domain_count") :
        \A tl \in LinesOfKind("technical_count") :
            /\ stdout[t].b = NumDomain + NumTechnical
            /\ stdout[t].a = NumDomain + NumTechnical - non2xx
            /\ stdout[dl].b = NumDomain
            /\ stdout[tl].b = NumTechnical
            /\ stdout[dl].a = SucceededIn(outcome, DomainItems)
            /\ stdout[tl].a = SucceededIn(outcome, TechnicalItems)
            /\ stdout[t].a = stdout[dl].a + stdout[tl].a
            /\ stdout[t].b = stdout[dl].b + stdout[tl].b

\* ------------------------------------------------------------------------
\* C7
\* ------------------------------------------------------------------------

\* C7: in the step in which a create_issue call returns, the batch of the
\* submitted descriptor gets attempted + 1, and succeeded + 1 if the call
\* returned True, succeeded unchanged if it returned False; the counts of
\* the other batch do not change.
C7_CountsPerSubmission ==
    [][CallReturns =>
        LET inc == IF returned' = "True" THEN 1 ELSE 0 IN
        IF inflight \in DomainItems
        THEN /\ domain_success' = domain_success + inc
             /\ AttemptedIn(outcome', DomainItems)
                  = AttemptedIn(outcome, DomainItems) + 1
             /\ technical_success' = technical_success
             /\ AttemptedIn(outcome', TechnicalItems)
                  = AttemptedIn(outcome, TechnicalItems)
        ELSE /\ technical_success' = technical_success + inc
             /\ AttemptedIn(outcome', TechnicalItems)
                  = AttemptedIn(outcome, TechnicalItems) + 1
             /\ domain_success' = domain_success
             /\ AttemptedIn(outcome', DomainItems)
                  = AttemptedIn(outcome, DomainItems)]_vars

\* Both kinds of return have happened in both batches.
C7_Witness ==
    /\ domain_success >= 1
    /\ technical_success >= 1
    /\ AttemptedIn(outcome, DomainItems) > domain_success
    /\ AttemptedIn(outcome, TechnicalItems) > technical_success

\* ------------------------------------------------------------------------
\* C8
\* ------------------------------------------------------------------------

\* C8: for each batch 0 <= succeeded <= attempted <= size, attempted being
\* the number of the batch's descriptors whose call has returned, and after
\* the summary attempted is the size of the batch: 13 and 12.
C8_CountsInvariant ==
    /\ 0 <= domain_success
    /\ domain_success <= AttemptedIn(outcome, DomainItems)
    /\ AttemptedIn(outcome, DomainItems) <= NumDomain
    /\ 0 <= technical_success
    /\ technical_success <= AttemptedIn(outcome, TechnicalItems)
    /\ AttemptedIn(outcome, TechnicalItems) <= NumTechnical
    /\ pc = "domain" /\ inflight = 0
         => AttemptedIn(outcome, DomainItems) = i - 1
    /\ pc = "technical" /\ inflight = 0
         => AttemptedIn(outcome, TechnicalItems) = i - 1
    /\ pc = "done" => /\ AttemptedIn(outcome, DomainItems) = 13
                      /\ AttemptedIn(outcome, TechnicalItems) = 12

\* The run completed with failures in both batches.
C8_Witness ==
    /\ pc = "done"
    /\ domain_success < NumDomain
    /\ technical_success < NumTechnical

\* ------------------------------------------------------------------------
\* C9
\* ------------------------------------------------------------------------

IsMarker(l) == l.kind \in {"created", "failed"}

\* The per-item markers printed so far, in the order printed.
MarkerLines == SelectSeq(stdout, IsMarker)

\* The j-th marker printed is the marker of the j-th request sent.
MarkersInSubmissionOrder ==
    LET ms == MarkerLines IN
    /\ Len(ms) <= Len(requests)
    /\ \A j \in 1..Len(ms) : ms[j].item = requests[j].title

\* C9 as stated: markers in submission order; the domain count line comes
\* after the domain markers and before the technical markers; the technical
\* count line after the technical markers; the total after the count lines.
C9_BatchLineAfterItsBatch ==
    /\ MarkersInSubmissionOrder
    /\ \A c \in LinesOfKind("domain_count") :
         /\ \A m \in Markers(DomainItems) : m < c
         /\ \A m \in Markers(TechnicalItems) : c < m
    /\ \A c \in LinesOfKind("technical_count") :
         \A m \in Markers(TechnicalItems) : m < c
    /\ \A t \in LinesOfKind("total") :
         \A c \in LinesOfKind("domain_count")
                    \cup LinesOfKind("technical_count") : c < t

\* C9 amended: markers in submission order; the total, the domain count and
\* the technical count are printed once each, in this order, after the
\* markers of all descriptors of both batches (none of them before the last
\* technical descriptor has its marker), and a run that ends normally has
\* printed them.
C9_SummaryAfterAllItems ==
    /\ MarkersInSubmissionOrder
    /\ pc # "done" =>
         \A p \in DOMAIN stdout :
            stdout[p].kind \notin {"total", "domain_count", "technical_count"}
    /\ pc = "done" =>
         \E t \in DOMAIN stdout :
            /\ LinesOfKind("total") = {t}
            /\ LinesOfKind("domain_count") = {t + 1}
            /\ LinesOfKind("technical_count") = {t + 2}
            /\ \A m \in Markers(Descriptors) : m < t
            /\ Len(MarkerLines) = NumDomain + NumTechnical

\* The summary is out, after markers of both kinds.
C9_Witness ==
    /\ LinesOfKind("technical_count") # {}
    /\ \E p, q \in Markers(Descriptors) :
         stdout[p].kind = "created" /\ stdout[q].kind = "failed"

\* ------------------------------------------------------------------------
\* C10
\* ------------------------------------------------------------------------

\* C10: a descriptor is submitted at most once; once its outcome is
\* Succeeded or Failed, the outcome stays and no further call is made for
\* it; from Pending it goes to Succeeded or Failed only in the step in which
\* its own call returns.
C10_OutcomeTerminal ==
    [][\A d \in Descriptors :
         /\ calls'[d] <= 1
         /\ outcome[d] # "Pending"
              => outcome'[d] = outcome[d] /\ calls'[d] = calls[d]
         /\ outcome[d] = "Pending" /\ outcome'[d] # "Pending"
              => /\ outcome'[d] \in {"Succeeded", "Failed"}
                 /\ inflight = d
                 /\ calls[d] = 1]_vars

\* A descriptor failed early and the run then went through all the others.
C10_Witness ==
    /\ outcome[1] = "Failed"
    /\ calls[1] = 1
    /\ pc = "done"

\* ------------------------------------------------------------------------
\* C11
\* ------------------------------------------------------------------------

\* C11: the k-th request sent carries the title and body of the k-th
\* descriptor of the catalog (domain list, then technical list) and the token
\* read from the environment; when the n-th request has been sent, the calls
\* for descriptors 1..n-1 have all returned and no later descriptor has been
\* called, so no technical descriptor is submitted before the last domain
\* descriptor is done.
C11_CatalogOrder ==
    LET n == Len(requests) IN
    /\ \A k \in 1..n :
         /\ requests[k].title = k
         /\ requests[k].body = k
         /\ requests[k].authorization = token
    /\ \A d \in Descriptors :
         /\ d < n => calls[d] = 1 /\ outcome[d] # "Pending"
         /\ d = n => calls[d] = 1
         /\ d > n => calls[d] = 0 /\ outcome[d] = "Pending"
    /\ pc \in {"start", "domain"} => n <= NumDomain

\* All 25 requests have been sent and the run is over.
C11_Witness ==
    /\ pc = "done"
    /\ Len(requests) = NumDomain + NumTechnical
    /\ requests[NumDomain + 1].title = get_technical_feature_requests[1]

\* ------------------------------------------------------------------------
\* C12
\* ------------------------------------------------------------------------

\* C12: a process that was started with a token and has ended (every network
\* call it made completed, with a response or with a transport failure) has
\* attempted all 25 descriptors and printed the total and both per-batch
\* lines.
C12_EndsWithFullReport ==
    (~TokenMissing(token) /\ exit_code # -1) =>
        /\ pc = "done"
        /\ \A d \in Descriptors : outcome[d] # "Pending"
        /\ \E p \in DOMAIN stdout : stdout[p].kind = "total"
        /\ \E p \in DOMAIN stdout : stdout[p].kind = "domain_count"
        /\ \E p \in DOMAIN stdout : stdout[p].kind = "technical_count"

\* ------------------------------------------------------------------------
\* C13
\* ------------------------------------------------------------------------

\* Number of records the remote repository holds for descriptor d.
Records(d) == Cardinality({r \in DOMAIN remote : remote[r] = d})

\* C13 (under SpecRuns, where every answered request is answered 201): when
\* a run reaches its summary and every earlier run did too, then with r the
\* number of runs so far, r * 25 requests have been sent, the remote
\* repository holds r * 25 records, r for each descriptor, and the run now
\* ending called create_issue for every descriptor whatever the repository
\* already held.
C13_NotIdempotent ==
    (pc = "done" /\ \A k \in DOMAIN history : history[k] = 0) =>
        LET r == Len(history) + 1 IN
        /\ Len(requests) = r * (NumDomain + NumTechnical)
        /\ Len(remote) = r * (NumDomain + NumTechnical)
        /\ \A d \in Descriptors : Records(d) = r /\ calls[d] = 1

\* The second of two complete runs has ended: 50 requests, 50 records.
C13_Witness ==
    /\ pc = "done"
    /\ history = <<0>>
    /\ Len(requests) = 2 * (NumDomain + NumTechnical)
    /\ Len(remote) = 2 * (NumDomain + NumTechnical)

\* ------------------------------------------------------------------------
\* C14
\* ------------------------------------------------------------------------

\* Number of descriptors whose call has started and not ended.
CallsOpen ==
    Cardinality({d \in Descriptors : calls[d] >= 1 /\ outcome[d] = "Pending"})

\* C14: a request is sent only in a state with no call open, that is when
\* every descriptor called so far has its outcome and its count recorded;
\* at most one call is open at any time, the one of the request in flight
\* (or the one an exception ended); and the two counters change in no step
\* other than the return of a create_issue call to the loop.
C14_OneInFlight ==
    /\ [][/\ requests' # requests =>
               /\ inflight = 0
               /\ CallsOpen = 0
               /\ domain_success + technical_success
                    = SucceededIn(outcome, Descriptors)
               /\ Len(requests') = Len(requests) + 1
               /\ inflight' # 0
          /\ (domain_success' # domain_success
                \/ technical_success' # technical_success) => CallReturns
         ]_vars
    /\ [](/\ CallsOpen <= 1
          /\ inflight # 0 => CallsOpen = 1 /\ outcome[inflight] = "Pending"
          /\ CallsOpen = 1 => inflight # 0 \/ pc = "crashed")

\* A request is in flight while earlier calls have returned both ways.
C14_Witness ==
    /\ inflight # 0
    /\ CallsOpen = 1
    /\ domain_success >= 1
    /\ \E d \in Descriptors : outcome[d] = "Failed"

\* ------------------------------------------------------------------------
\* C15
\* ------------------------------------------------------------------------

\* remote' is remote, or remote with one record appended.
GrowsByAtMostOne(old, new) ==
    /\ Len(new) \in {Len(old), Len(old) + 1}
    /\ \A r \in DOMAIN old : new[r] = old[r]

\* C15: in every step the records of the remote repository are kept as they
\* are and at most one is appended; a call that returns False, the step to
\* the technical batch, the summary and the end of the run append none.
C15_NoCompensation ==
    [][/\ GrowsByAtMostOne(remote, remote')
       /\ (CallReturns /\ returned' = "False") => remote' = remote
       /\ inflight = 0 => remote' = remote
       /\ pc' \in {"done", "crashed", "exited"} /\ returned' # "True"
            => remote' = remote]_vars

\* Records were created, a later call failed, and the run ended.
C15_Witness ==
    /\ pc = "done"
    /\ Len(remote) >= 2
    /\ \E d \in Descriptors : outcome[d] = "Failed" /\ remote[1] < d

\* ------------------------------------------------------------------------
\* C16
\* ------------------------------------------------------------------------

IsCreated(l) == l.kind = "created"

IsFailed(l) == l.kind = "failed"

\* C16: the step in which a call for d returns prints exactly one marker for
\* d: the success marker alone if it returned True and the batch's counter
\* grew, the failure marker followed by the response text if it returned
\* False and no counter grew; no other step prints a marker. So in every
\* state the success markers number domain_success + technical_success and
\* the failure markers number attempted minus that.
C16_MarkerAgreesWithCount ==
    /\ [][IF CallReturns
          THEN LET d == inflight
                   grew == (domain_success' + technical_success')
                             - (domain_success + technical_success)
               IN IF returned' = "True"
                  THEN /\ stdout' = Append(stdout, Line("created", d, 0, 0))
                       /\ grew = 1
                  ELSE /\ stdout' = stdout \o
                                      <<Line("failed", d, 0, 0),
                                        Line("response_text", d, 0, 0)>>
                       /\ grew = 0
          ELSE Len(SelectSeq(stdout', IsMarker)) = Len(MarkerLines)]_vars
    /\ [](/\ Len(SelectSeq(stdout, IsCreated))
               = domain_success + technical_success
          /\ Len(SelectSeq(stdout, IsFailed))
               = AttemptedIn(outcome, Descriptors)
                   - (domain_success + technical_success))

\* The summary reports fewer successes than attempts, and the markers of both
\* kinds are on stdout.
C16_Witness ==
    /\ pc = "done"
    /\ Len(SelectSeq(stdout, IsCreated)) = domain_success + technical_success
    /\ Len(SelectSeq(stdout, IsFailed)) >= 1
    /\ domain_success + technical_success >= 1

\* ------------------------------------------------------------------------
\* C17
\* ------------------------------------------------------------------------

\* C17: after the domain loop has ended domain_success does not change, and
\* no call for a technical descriptor changes it; technical_success is 0
\* until the technical loop starts, and no call for a domain descriptor
\* changes it.
C17_CountersIndependent ==
    /\ [][/\ pc \in {"technical", "done", "crashed", "exited"}
               => domain_success' = domain_success
          /\ inflight \in TechnicalItems => domain_success' = domain_success
          /\ inflight \in DomainItems
               => technical_success' = technical_success
          /\ (pc = "domain" /\ pc' = "technical") => technical_success' = 0
         ]_vars
    /\ [](pc \in {"start", "domain"} => technical_success = 0)

\* The technical batch is running with successes counted in both batches.
C17_Witness ==
    /\ pc = "technical"
    /\ domain_success >= 1
    /\ technical_success >= 1
    /\ domain_success < NumDomain

\* ------------------------------------------------------------------------
\* C18
\* ------------------------------------------------------------------------

\* The lines of the final summary on stdout.
IsSummaryLine(l) == l.kind \in {"total", "domain_count", "technical_count"}

\* C18: the total and the two per-batch lines are on stdout at most once
\* each; they are there only in a state in which every descriptor of both
\* batches has been attempted; and once they are there nothing more is
\* printed.
C18_SummaryOnceAtEnd ==
    /\ [](LET sl == SelectSeq(stdout, IsSummaryLine) IN
          /\ Len(sl) \in {0, 3}
          /\ Len(sl) = 3 =>
               /\ sl[1].kind = "total"
               /\ sl[2].kind = "domain_count"
               /\ sl[3].kind = "technical_count"
               /\ \A d \in Descriptors : outcome[d] # "Pending"
               /\ AttemptedIn(outcome, DomainItems) = NumDomain
               /\ AttemptedIn(outcome, TechnicalItems) = NumTechnical
          /\ pc = "done" => Len(sl) = 3)
    /\ [][Len(SelectSeq(stdout, IsSummaryLine)) > 0 => stdout' = stdout]_vars

\* The summary is out after a pass in which a descriptor failed.
C18_Witness ==
    /\ Len(SelectSeq(stdout, IsSummaryLine)) = 3
    /\ domain_success + technical_success < NumDomain + NumTechnical

====
